---- MODULE Spec2Model ----
(***************************************************************************)
(* AgentTrace: session state (Session), registry entry point              *)
(* (SessionManager.kill_session), policy evaluation (PolicyEngine), kill   *)
(* switch (KillSwitch) and orchestrator (AgentTrace), with callers running *)
(* on concurrent threads.  Every step of a thread is one access to shared  *)
(* state; the session lock serialises the steps taken inside               *)
(* `with self._lock`.  Costs are integers (cost units).                    *)
(***************************************************************************)
EXTENDS Integers, Sequences, FiniteSets, TLC

\* ------------------------------------------------------------------ bounds
MaxCalls == 3
MaxClock == 2
MaxKillCalls == 2
MaxTotal == 4
MaxCount == 3
MaxTraceCalls == 2
MaxBudgetCalls == 6
MaxLockCalls == 3

Threads == {"t1", "t2"}
NoThread == "none"
Costs == {1, 2}
ViolationTypes == {"pii_blocked", "unknown_x"}
CallerReasons == {"r1", "r2"}
Webhooks == {"hook_a", "hook_b"}
\* Session ids: the id of the session created first, and another id.
SessionIds == {"s1", "s2"}
\* Session instances are numbered in the order of their construction.
NoInstance == 0
PolicyActions == {"kill", "alert", "log", "block"}
EstimatedCosts == -1..MaxTotal

\* ------------------------------------------------------------------ state
VARIABLES
    state,              \* Session.state
    kill_reason,        \* Session._kill_reason
    total_cost,         \* Session._total_cost
    action_count,       \* Session._action_count
    violation_counts,   \* Session._violation_counts (0 = key absent)
    actions,            \* Session._actions
    violations,         \* Session._violations
    lock,               \* Session._lock: the thread holding it, or NoThread
    kill_history,       \* KillSwitch._kill_history
    audit,              \* AuditLogger._entries
    clock,              \* time.time() - session.created_at, as last read
    policy,             \* PolicyEngine.policy
    pc,                 \* each thread's position
    stack,              \* each thread's return addresses
    loc,                \* each thread's arguments and locals
    res,                \* each thread's last returned value or raised error
    calls,              \* number of calls the callers have started
    returned,           \* per violation type, the counts Session.record_violation
                        \* has returned, in the order of the returns
    webhook_posts,      \* per webhook url, the number of client.post calls made to it
    sessions,           \* SessionManager._sessions: session id -> Session instance
    created,            \* number of Session instances constructed so far
    registry_lock       \* SessionManager._lock: the thread holding it, or NoThread

session_vars == <<state, kill_reason, total_cost, action_count,
                  violation_counts, actions, violations, lock>>
registry_vars == <<sessions, created, registry_lock>>
vars == <<state, kill_reason, total_cost, action_count, violation_counts,
          actions, violations, lock, kill_history, audit, clock, policy,
          pc, stack, loc, res, calls, returned, webhook_posts, sessions, created,
          registry_lock>>

\* ------------------------------------------------------------------ values
NoReason == <<"none", 0, 0, "">>
Reason(tag, a, b, vt) == <<tag, a, b, vt>>

\* The policy of TestAgentTrace._make_trace, ceilings scaled to cost units.
TestPolicy ==
    [ max_cost_per_session |-> 3,
      max_cost_per_action  |-> 2,
      alert_num            |-> 2,      \* alert_at = alert_num / alert_den
      alert_den            |-> 3,
      on_exceed            |-> "kill",
      max_duration_seconds |-> 1,
      max_actions          |-> 2,
      thresholds           |-> [vt \in {"pii_blocked"} |-> 2],
      on_threshold         |-> "kill",
      webhooks             |-> <<>> ]

\* Policies for the evaluation of single decisions: two session ceilings, a
\* per-action ceiling below and above them, alert fractions 2/3 and 1, every
\* on_exceed action, two on_threshold actions.
EvalPolicies ==
    { [TestPolicy EXCEPT !.max_cost_per_session = s, !.max_cost_per_action = a,
                         !.alert_num = n, !.on_exceed = e, !.on_threshold = o] :
        s \in {3, 4}, a \in {2, 5}, n \in {2, 3}, e \in PolicyActions,
        o \in {"kill", "log"} }

\* The same policy with two kill-switch webhooks configured.
HookPolicy == [TestPolicy EXCEPT !.webhooks = <<"hook_a", "hook_b">>]

Decision(allowed, taken, reason) ==
    [action_allowed |-> allowed, action_taken |-> taken, reason |-> reason]
NoDecision == Decision(TRUE, "none", NoReason)

NoEvent == [reason |-> NoReason, session_cost |-> 0, action_count |-> 0,
            violation_counts |-> [vt \in ViolationTypes |-> 0],
            notifications_sent |-> <<>>]

NoLocals == [op |-> "none", sid |-> "s1", to_remove |-> {}, cost |-> 0, vtype |-> "", reason |-> NoReason,
             tmp |-> 0, total |-> 0, dec |-> NoDecision, event |-> NoEvent,
             outcomes |-> <<>>, duration |-> 0]

NoResult == [kind |-> "none", val |-> 0]
Result(kind, val) == [kind |-> kind, val |-> val]

\* AuditLogger.log: an entry tagged with a session id.
EntryOf(sid, event_type, vt, a, b, r) ==
    [event_type |-> event_type, session_id |-> sid, vt |-> vt, a |-> a, b |-> b,
     r |-> r]

\* An entry of the session created first: the operations log session.session_id.
Entry(event_type, vt, a, b, r) == EntryOf("s1", event_type, vt, a, b, r)

\* Outcome of one _send_webhook: a 2xx response, another response, an exception.
\* Before it: the task not started ("none"), the post awaiting its response.
SendOutcomes == {"sent", "failed", "exception"}
Notification(url, outcome) ==
    [type |-> "webhook", url |-> url,
     status |-> IF outcome = "sent" THEN "sent" ELSE "failed",
     detail |-> IF outcome = "exception" THEN "error" ELSE "status_code"]

RECURSIVE SumCost(_)
SumCost(s) == IF s = <<>> THEN 0 ELSE Head(s).cost + SumCost(Tail(s))

\* ------------------------------------------------------------------ Session
is_active == state = "active" \/ state = "alert"

\* `with self._lock:` entry and exit.
\* (acquire_unguarded: the lock is taken without waiting for it to be free)
acquire_unguarded(t) == lock' = t

acquire(t) == lock = NoThread /\ lock' = t
\* (release_forgotten: the lock is left held at the exit of the region)
release_forgotten(t) == lock' = lock

release(t) == lock' = NoThread
\* a locked region that is one step of the model
locked_step(t) == lock = NoThread /\ lock' = lock

\* ------------------------------------------------------------------ PolicyEngine
get_violation_threshold(p, vt) ==
    IF vt \in DOMAIN p.thresholds THEN p.thresholds[vt] ELSE 0

has_threshold(p, vt) == vt \in DOMAIN p.thresholds

\* utilization >= alert_at, with utilization = cost_after / max_cost_per_session
\* and alert_at = alert_num / alert_den (max_cost_per_session > 0 here).
\* (utilization_alert_strict: the alert fraction compared with >)
utilization_alert_strict(p, cost_after) ==
    cost_after * p.alert_den > p.alert_num * p.max_cost_per_session

utilization_alert(p, cost_after) ==
    cost_after * p.alert_den >= p.alert_num * p.max_cost_per_session

\* (evaluate_pre_action_cost_first: the cost rules before the duration and
\* action caps)
evaluate_pre_action_cost_first(p, session_total_cost, session_action_count, session_duration, estimated_cost) ==
    LET cost_after == session_total_cost + estimated_cost IN
    IF estimated_cost > p.max_cost_per_action
    THEN Decision(FALSE, "block",
                  Reason("per_action", estimated_cost, p.max_cost_per_action, ""))
    ELSE IF cost_after > p.max_cost_per_session
    THEN Decision(FALSE, p.on_exceed,
                  Reason("budget", cost_after, p.max_cost_per_session, ""))
    ELSE IF session_duration > p.max_duration_seconds
    THEN Decision(FALSE, "kill",
                  Reason("duration", session_duration, p.max_duration_seconds, ""))
    ELSE IF session_action_count >= p.max_actions
    THEN Decision(FALSE, "kill",
                  Reason("action_count", session_action_count, p.max_actions, ""))
    ELSE IF p.max_cost_per_session = 0
    THEN Decision(FALSE, "ZeroDivisionError", NoReason)
    ELSE IF utilization_alert(p, cost_after)
    THEN Decision(TRUE, "alert",
                  Reason("utilization", cost_after, p.max_cost_per_session, ""))
    ELSE Decision(TRUE, "log", Reason("within_limits", 0, 0, ""))

\* (evaluate_pre_action_budget_first: the session budget checked before the
\* per-action ceiling)
evaluate_pre_action_budget_first(p, session_total_cost, session_action_count, session_duration, estimated_cost) ==
    LET cost_after == session_total_cost + estimated_cost IN
    IF session_duration > p.max_duration_seconds
    THEN Decision(FALSE, "kill",
                  Reason("duration", session_duration, p.max_duration_seconds, ""))
    ELSE IF session_action_count >= p.max_actions
    THEN Decision(FALSE, "kill",
                  Reason("action_count", session_action_count, p.max_actions, ""))
    ELSE IF cost_after > p.max_cost_per_session
    THEN Decision(FALSE, p.on_exceed,
                  Reason("budget", cost_after, p.max_cost_per_session, ""))
    ELSE IF estimated_cost > p.max_cost_per_action
    THEN Decision(FALSE, "block",
                  Reason("per_action", estimated_cost, p.max_cost_per_action, ""))
    ELSE IF p.max_cost_per_session = 0
    THEN Decision(FALSE, "ZeroDivisionError", NoReason)
    ELSE IF utilization_alert(p, cost_after)
    THEN Decision(TRUE, "alert",
                  Reason("utilization", cost_after, p.max_cost_per_session, ""))
    ELSE Decision(TRUE, "log", Reason("within_limits", 0, 0, ""))

\* (evaluate_pre_action_inclusive: the session ceiling compared with >=)
evaluate_pre_action_inclusive(p, session_total_cost, session_action_count, session_duration, estimated_cost) ==
    LET cost_after == session_total_cost + estimated_cost IN
    IF session_duration > p.max_duration_seconds
    THEN Decision(FALSE, "kill",
                  Reason("duration", session_duration, p.max_duration_seconds, ""))
    ELSE IF session_action_count >= p.max_actions
    THEN Decision(FALSE, "kill",
                  Reason("action_count", session_action_count, p.max_actions, ""))
    ELSE IF estimated_cost > p.max_cost_per_action
    THEN Decision(FALSE, "block",
                  Reason("per_action", estimated_cost, p.max_cost_per_action, ""))
    ELSE IF cost_after >= p.max_cost_per_session
    THEN Decision(FALSE, p.on_exceed,
                  Reason("budget", cost_after, p.max_cost_per_session, ""))
    ELSE IF utilization_alert(p, cost_after)
    THEN Decision(TRUE, "alert",
                  Reason("utilization", cost_after, p.max_cost_per_session, ""))
    ELSE Decision(TRUE, "log", Reason("within_limits", 0, 0, ""))

\* (evaluate_pre_action_current_cost: the session ceiling compared with the
\* cost before the action)
evaluate_pre_action_current_cost(p, session_total_cost, session_action_count, session_duration, estimated_cost) ==
    LET cost_after == session_total_cost + estimated_cost IN
    IF session_duration > p.max_duration_seconds
    THEN Decision(FALSE, "kill",
                  Reason("duration", session_duration, p.max_duration_seconds, ""))
    ELSE IF session_action_count >= p.max_actions
    THEN Decision(FALSE, "kill",
                  Reason("action_count", session_action_count, p.max_actions, ""))
    ELSE IF estimated_cost > p.max_cost_per_action
    THEN Decision(FALSE, "block",
                  Reason("per_action", estimated_cost, p.max_cost_per_action, ""))
    ELSE IF session_total_cost > p.max_cost_per_session
    THEN Decision(FALSE, p.on_exceed,
                  Reason("budget", cost_after, p.max_cost_per_session, ""))
    ELSE IF p.max_cost_per_session = 0
    THEN Decision(FALSE, "ZeroDivisionError", NoReason)
    ELSE IF utilization_alert(p, cost_after)
    THEN Decision(TRUE, "alert",
                  Reason("utilization", cost_after, p.max_cost_per_session, ""))
    ELSE Decision(TRUE, "log", Reason("within_limits", 0, 0, ""))

evaluate_pre_action(p, session_total_cost, session_action_count, session_duration, estimated_cost) ==
    LET cost_after == session_total_cost + estimated_cost IN
    IF session_duration > p.max_duration_seconds
    THEN Decision(FALSE, "kill",
                  Reason("duration", session_duration, p.max_duration_seconds, ""))
    ELSE IF session_action_count >= p.max_actions
    THEN Decision(FALSE, "kill",
                  Reason("action_count", session_action_count, p.max_actions, ""))
    ELSE IF estimated_cost > p.max_cost_per_action
    THEN Decision(FALSE, "block",
                  Reason("per_action", estimated_cost, p.max_cost_per_action, ""))
    ELSE IF cost_after > p.max_cost_per_session
    THEN Decision(FALSE, p.on_exceed,
                  Reason("budget", cost_after, p.max_cost_per_session, ""))
    ELSE IF p.max_cost_per_session = 0
    THEN Decision(FALSE, "ZeroDivisionError", NoReason)
    ELSE IF utilization_alert(p, cost_after)
    THEN Decision(TRUE, "alert",
                  Reason("utilization", cost_after, p.max_cost_per_session, ""))
    ELSE Decision(TRUE, "log", Reason("within_limits", 0, 0, ""))

\* (evaluate_violation_exclusive: the threshold compared with > instead of >=)
evaluate_violation_exclusive(p, violation_type, cumulative_count) ==
    IF ~has_threshold(p, violation_type)
    THEN Decision(TRUE, "log", Reason("no_threshold", 0, 0, violation_type))
    ELSE IF cumulative_count > get_violation_threshold(p, violation_type)
    THEN Decision(FALSE, p.on_threshold,
                  Reason("reached", cumulative_count,
                         get_violation_threshold(p, violation_type), violation_type))
    ELSE Decision(TRUE, "log",
                  Reason("below", cumulative_count,
                         get_violation_threshold(p, violation_type), violation_type))

\* (evaluate_violation_default_zero: a type without a threshold is given the
\* threshold 0)
evaluate_violation_default_zero(p, violation_type, cumulative_count) ==
    IF cumulative_count >= get_violation_threshold(p, violation_type)
    THEN Decision(FALSE, p.on_threshold,
                  Reason("reached", cumulative_count,
                         get_violation_threshold(p, violation_type), violation_type))
    ELSE Decision(TRUE, "log",
                  Reason("below", cumulative_count,
                         get_violation_threshold(p, violation_type), violation_type))

evaluate_violation(p, violation_type, cumulative_count) ==
    IF ~has_threshold(p, violation_type)
    THEN Decision(TRUE, "log", Reason("no_threshold", 0, 0, violation_type))
    ELSE IF cumulative_count >= get_violation_threshold(p, violation_type)
    THEN Decision(FALSE, p.on_threshold,
                  Reason("reached", cumulative_count,
                         get_violation_threshold(p, violation_type), violation_type))
    ELSE Decision(TRUE, "log",
                  Reason("below", cumulative_count,
                         get_violation_threshold(p, violation_type), violation_type))

\* ------------------------------------------------------------------ control
Goto(t, l) == pc' = [pc EXCEPT ![t] = l] /\ UNCHANGED stack
CallProc(t, proc, retl) ==
    /\ pc' = [pc EXCEPT ![t] = proc]
    /\ stack' = [stack EXCEPT ![t] = <<retl>> \o @]
Return(t) ==
    /\ pc' = [pc EXCEPT ![t] = Head(stack[t])]
    /\ stack' = [stack EXCEPT ![t] = Tail(@)]
Raise(t, err) ==
    /\ pc' = [pc EXCEPT ![t] = "ret"]
    /\ stack' = [stack EXCEPT ![t] = <<>>]
    /\ res' = [res EXCEPT ![t] = Result("error", err)]

InitState(p) ==
    /\ state = "active"
    /\ kill_reason = NoReason
    /\ total_cost = 0
    /\ action_count = 0
    /\ violation_counts = [vt \in ViolationTypes |-> 0]
    /\ actions = <<>>
    /\ violations = <<>>
    /\ lock = NoThread
    /\ kill_history = <<>>
    /\ audit = <<Entry("session_created", "", 0, 0, NoReason)>>
    /\ clock = 0
    /\ policy = p
    /\ pc = [t \in Threads |-> "idle"]
    /\ stack = [t \in Threads |-> <<>>]
    /\ loc = [t \in Threads |-> NoLocals]
    /\ res = [t \in Threads |-> NoResult]
    /\ calls = 0
    /\ returned = [vt \in ViolationTypes |-> <<>>]
    /\ webhook_posts = [url \in Webhooks |-> 0]
    /\ sessions = [sid \in SessionIds |-> IF sid = "s1" THEN 1 ELSE NoInstance]
    /\ created = 1
    /\ registry_lock = NoThread

Init == InitState(TestPolicy)

InitHooks == InitState(HookPolicy)

\* ---------------------------------------------------- Session.record_action
\* (RA_Enter_NoCheck: record_action without its is_active check)
RA_Enter_NoCheck(t) ==
    /\ pc[t] = "ra_enter"
    /\ acquire(t)
    /\ Goto(t, "ra_append")
    /\ UNCHANGED <<state, kill_reason, total_cost, action_count, violation_counts,
                   actions, violations, kill_history, audit, clock, policy, loc, res,
                   calls, returned, webhook_posts, registry_vars>>

RA_Enter(t) ==
    /\ pc[t] = "ra_enter"
    /\ IF ~is_active
       THEN /\ locked_step(t)
            /\ Raise(t, "SessionKilledError")
       ELSE /\ acquire(t)
            /\ Goto(t, "ra_append")
            /\ UNCHANGED res
    /\ UNCHANGED <<state, kill_reason, total_cost, action_count, violation_counts,
                   actions, violations, kill_history, audit, clock, policy, loc, calls, returned, webhook_posts, registry_vars>>

RA_Append(t) ==
    /\ pc[t] = "ra_append"
    /\ actions' = Append(actions, [cost |-> loc[t].cost, action_index |-> action_count])
    /\ loc' = [loc EXCEPT ![t].tmp = action_count]
    /\ Goto(t, "ra_count")
    /\ UNCHANGED <<state, kill_reason, total_cost, action_count, violation_counts,
                   violations, lock, kill_history, audit, clock, policy, res, calls, returned, webhook_posts, registry_vars>>

RA_Count(t) ==
    /\ pc[t] = "ra_count"
    /\ action_count' = loc[t].tmp + 1
    /\ loc' = [loc EXCEPT ![t].tmp = total_cost]
    /\ Goto(t, "ra_cost")
    /\ UNCHANGED <<state, kill_reason, total_cost, violation_counts, actions,
                   violations, lock, kill_history, audit, clock, policy, res, calls, returned, webhook_posts, registry_vars>>

RA_Cost(t) ==
    /\ pc[t] = "ra_cost"
    /\ total_cost' = loc[t].tmp + loc[t].cost
    /\ release(t)
    /\ res' = [res EXCEPT ![t] = NoResult]
    /\ Return(t)
    /\ UNCHANGED <<state, kill_reason, action_count, violation_counts, actions,
                   violations, kill_history, audit, clock, policy, loc, calls, returned, webhook_posts, registry_vars>>

\* ------------------------------------------------- Session.record_violation
\* (RV_Enter_Unlocked: the count is read outside the lock)
RV_Enter_Unlocked(t) ==
    /\ pc[t] = "rv_enter"
    /\ loc' = [loc EXCEPT ![t].tmp = violation_counts[loc[t].vtype] + 1]
    /\ Goto(t, "rv_store")
    /\ UNCHANGED <<state, kill_reason, total_cost, action_count, violation_counts,
                   actions, violations, lock, kill_history, audit, clock, policy, res,
                   calls, returned, webhook_posts, registry_vars>>

RV_Enter(t) ==
    /\ pc[t] = "rv_enter"
    /\ acquire(t)
    /\ loc' = [loc EXCEPT ![t].tmp = violation_counts[loc[t].vtype] + 1]
    /\ Goto(t, "rv_store")
    /\ UNCHANGED <<state, kill_reason, total_cost, action_count, violation_counts,
                   actions, violations, kill_history, audit, clock, policy, res, calls, returned, webhook_posts, registry_vars>>

RV_Store(t) ==
    /\ pc[t] = "rv_store"
    /\ violation_counts' = [violation_counts EXCEPT ![loc[t].vtype] = loc[t].tmp]
    /\ violations' = Append(violations,
                            [violation_type |-> loc[t].vtype, action_index |-> action_count])
    /\ release(t)
    /\ res' = [res EXCEPT ![t] = Result("count", loc[t].tmp)]
    /\ returned' = [returned EXCEPT ![loc[t].vtype] = Append(@, loc[t].tmp)]
    /\ Return(t)
    /\ UNCHANGED <<state, kill_reason, total_cost, action_count, actions,
                   kill_history, audit, clock, policy, loc, calls, webhook_posts, registry_vars>>

\* ------------------------------------------------------------- Session.kill
\* (K_State_Expire: a session killed for its duration is marked Expired)
K_State_Expire(t) ==
    /\ pc[t] = "k_state"
    /\ acquire(t)
    /\ state' = IF loc[t].reason[1] = "duration" THEN "expired" ELSE "killed"
    /\ Goto(t, "k_reason")
    /\ UNCHANGED <<kill_reason, total_cost, action_count, violation_counts, actions,
                   violations, kill_history, audit, clock, policy, loc, res, calls, returned, webhook_posts, registry_vars>>

K_State(t) ==
    /\ pc[t] = "k_state"
    /\ acquire(t)
    /\ state' = "killed"
    /\ Goto(t, "k_reason")
    /\ UNCHANGED <<kill_reason, total_cost, action_count, violation_counts, actions,
                   violations, kill_history, audit, clock, policy, loc, res, calls, returned, webhook_posts, registry_vars>>

K_Reason(t) ==
    /\ pc[t] = "k_reason"
    /\ kill_reason' = loc[t].reason
    /\ release(t)
    /\ res' = [res EXCEPT ![t] = NoResult]
    /\ Return(t)
    /\ UNCHANGED <<state, total_cost, action_count, violation_counts, actions,
                   violations, kill_history, audit, clock, policy, loc, calls, returned, webhook_posts, registry_vars>>

\* -------------------------------------------- Session.set_alert and complete
\* (set_alert_state_unguarded: the state is set without looking at it)
set_alert_state_unguarded == "alert"

set_alert_state == IF state = "active" THEN "alert" ELSE state

\* (complete_state_unguarded: complete without its is_active check)
complete_state_unguarded == "completed"

complete_state == IF is_active THEN "completed" ELSE state

SA_Step(t) ==
    /\ pc[t] = "sa_step"
    /\ locked_step(t)
    /\ state' = set_alert_state
    /\ res' = [res EXCEPT ![t] = NoResult]
    /\ Return(t)
    /\ UNCHANGED <<kill_reason, total_cost, action_count, violation_counts, actions,
                   violations, kill_history, audit, clock, policy, loc, calls, returned, webhook_posts, registry_vars>>

CO_Step(t) ==
    /\ pc[t] = "co_step"
    /\ locked_step(t)
    /\ state' = complete_state
    /\ res' = [res EXCEPT ![t] = NoResult]
    /\ Return(t)
    /\ UNCHANGED <<kill_reason, total_cost, action_count, violation_counts, actions,
                   violations, kill_history, audit, clock, policy, loc, calls, returned, webhook_posts, registry_vars>>

\* ------------------------------------------------ SessionManager.kill_session
KS_Check(t) ==
    /\ pc[t] = "ks_check"
    /\ IF is_active
       THEN /\ CallProc(t, "k_state", "ks_true")
            /\ UNCHANGED res
       ELSE /\ res' = [res EXCEPT ![t] = Result("bool", FALSE)]
            /\ Return(t)
    /\ UNCHANGED <<session_vars, kill_history, audit, clock, policy, loc, calls, returned, webhook_posts, registry_vars>>

KS_True(t) ==
    /\ pc[t] = "ks_true"
    /\ res' = [res EXCEPT ![t] = Result("bool", TRUE)]
    /\ Return(t)
    /\ UNCHANGED <<session_vars, kill_history, audit, clock, policy, loc, calls, returned, webhook_posts, registry_vars>>

\* -------------------------------------------------------- KillSwitch.execute
\* (EX_Start_NotifyFirst: the event and the notifications without the kill
\* before them)
EX_Start_NotifyFirst(t) ==
    /\ pc[t] = "ex_start"
    /\ Goto(t, "ex_event")
    /\ UNCHANGED <<session_vars, kill_history, audit, clock, policy, loc, res, calls, returned, webhook_posts, registry_vars>>

EX_Start(t) ==
    /\ pc[t] = "ex_start"
    /\ CallProc(t, "k_state", "ex_event")
    /\ UNCHANGED <<session_vars, kill_history, audit, clock, policy, loc, res, calls, returned, webhook_posts, registry_vars>>

EX_Event(t) ==
    /\ pc[t] = "ex_event"
    /\ loc' = [loc EXCEPT ![t].event =
                  [reason |-> loc[t].reason, session_cost |-> total_cost,
                   action_count |-> action_count,
                   violation_counts |-> violation_counts,
                   notifications_sent |-> <<>>],
                          ![t].outcomes = [i \in 1..Len(policy.webhooks) |-> "none"]]
    /\ Goto(t, IF Len(policy.webhooks) > 0 THEN "ex_gather" ELSE "ex_record")
    /\ UNCHANGED <<session_vars, kill_history, audit, clock, policy, res, calls, returned, webhook_posts, registry_vars>>

\* asyncio.gather runs one _send_webhook task per configured webhook; a task
\* posts to its url and later gets a response or an exception.
EX_Post(t) ==
    /\ pc[t] = "ex_gather"
    /\ \E i \in DOMAIN loc[t].outcomes :
         /\ loc[t].outcomes[i] = "none"
         /\ loc' = [loc EXCEPT ![t].outcomes[i] = "pending"]
         /\ webhook_posts' = [webhook_posts EXCEPT ![policy.webhooks[i]] = @ + 1]
    /\ UNCHANGED <<session_vars, kill_history, audit, clock, policy, pc, stack, res, calls, returned, registry_vars>>

EX_Response(t) ==
    /\ pc[t] = "ex_gather"
    /\ \E i \in DOMAIN loc[t].outcomes, o \in SendOutcomes :
         /\ loc[t].outcomes[i] = "pending"
         /\ loc' = [loc EXCEPT ![t].outcomes[i] = o]
    /\ UNCHANGED <<session_vars, kill_history, audit, clock, policy, pc, stack, res, calls, returned, webhook_posts, registry_vars>>

\* (EX_Gather_Propagate: gather without return_exceptions, the first
\* exception of a task is raised to the caller of execute)
EX_Gather_Propagate(t) ==
    /\ pc[t] = "ex_gather"
    /\ \A i \in DOMAIN loc[t].outcomes : loc[t].outcomes[i] \in SendOutcomes
    /\ IF \E i \in DOMAIN loc[t].outcomes : loc[t].outcomes[i] = "exception"
       THEN Raise(t, "WebhookError") /\ UNCHANGED loc
       ELSE /\ loc' = [loc EXCEPT ![t].event.notifications_sent =
                          [i \in DOMAIN loc[t].outcomes |->
                              Notification(policy.webhooks[i], loc[t].outcomes[i])]]
            /\ Goto(t, "ex_record")
            /\ UNCHANGED res
    /\ UNCHANGED <<session_vars, kill_history, audit, clock, policy, calls, returned, webhook_posts, registry_vars>>

\* the results of gather, in the order of the webhooks, once every task is done
EX_Gather(t) ==
    /\ pc[t] = "ex_gather"
    /\ \A i \in DOMAIN loc[t].outcomes : loc[t].outcomes[i] \in SendOutcomes
    /\ loc' = [loc EXCEPT ![t].event.notifications_sent =
                  [i \in DOMAIN loc[t].outcomes |->
                      Notification(policy.webhooks[i], loc[t].outcomes[i])]]
    /\ Goto(t, "ex_record")
    /\ UNCHANGED <<session_vars, kill_history, audit, clock, policy, res, calls, returned, webhook_posts, registry_vars>>

\* the append to the kill history and the return of the event (AgentTrace
\* registers no callbacks)
EX_Record(t) ==
    /\ pc[t] = "ex_record"
    /\ kill_history' = Append(kill_history, loc[t].event)
    /\ res' = [res EXCEPT ![t] = Result("event", loc[t].event)]
    /\ Return(t)
    /\ UNCHANGED <<session_vars, audit, clock, policy, loc, calls, returned, webhook_posts, registry_vars>>

\* ------------------------------------------------- AgentTrace._execute_kill
XK_Start(t) ==
    /\ pc[t] = "xk_start"
    /\ CallProc(t, "ex_start", "xk_audit")
    /\ UNCHANGED <<session_vars, kill_history, audit, clock, policy, loc, res, calls, returned, webhook_posts, registry_vars>>

XK_Audit(t) ==
    /\ pc[t] = "xk_audit"
    /\ audit' = Append(audit, Entry("session_killed", "", total_cost, action_count,
                                    loc[t].reason))
    /\ Return(t)
    /\ UNCHANGED <<session_vars, kill_history, clock, policy, loc, res, calls, returned, webhook_posts, registry_vars>>

\* ------------------------------------------- AgentTrace._get_active_session
\* (session_missing_never: the lookup result is not checked for None)
session_missing_never(sid) == FALSE

\* session_manager.get_session(session_id) is None
session_missing(sid) == sessions[sid] = NoInstance

\* ------------------------------------------------------ AgentTrace.pre_action
\* _get_active_session, then the read of session.total_cost
PA_Get(t) ==
    /\ pc[t] = "pa_get"
    /\ IF session_missing(loc[t].sid)
       THEN /\ Raise(t, "ValueError")
            /\ UNCHANGED loc
       ELSE IF ~is_active
       THEN /\ Raise(t, "SessionKilledError")
            /\ UNCHANGED loc
       ELSE /\ loc' = [loc EXCEPT ![t].total = total_cost]
            /\ Goto(t, "pa_eval")
            /\ UNCHANGED res
    /\ UNCHANGED <<session_vars, kill_history, audit, clock, policy, calls, returned, webhook_posts, registry_vars>>

\* the reads of session.action_count and session.duration, and the evaluation;
\* time is read here only, so this is where it is seen to have passed
PA_Eval(t) ==
    /\ pc[t] = "pa_eval"
    /\ \E now \in clock..MaxClock :
         /\ clock' = now
         /\ loc' = [loc EXCEPT ![t].tmp = action_count,
                                ![t].dec =
                       evaluate_pre_action(policy, loc[t].total, action_count, now,
                                           loc[t].cost)]
    /\ Goto(t, "pa_act")
    /\ UNCHANGED <<session_vars, kill_history, audit, policy, res, calls, returned, webhook_posts, registry_vars>>

\* (kill_never_required: the Kill decision is returned but never executed)
kill_never_required(dec) == FALSE

\* (kill_required_any_denial: every denied action kills the session)
kill_required_any_denial(dec) == ~dec.action_allowed

kill_required(dec) == ~dec.action_allowed /\ dec.action_taken = "kill"

PA_Act(t) ==
    /\ pc[t] = "pa_act"
    /\ LET dec == loc[t].dec IN
       IF dec.action_taken = "ZeroDivisionError"
       THEN /\ Raise(t, "ZeroDivisionError")
            /\ UNCHANGED <<audit, loc>>
       ELSE IF ~dec.action_allowed
       THEN /\ audit' = Append(audit, Entry("action_blocked", "", total_cost, 0, dec.reason))
            /\ res' = [res EXCEPT ![t] = Result("decision", dec)]
            /\ IF kill_required(dec)
               THEN /\ loc' = [loc EXCEPT ![t].reason = dec.reason]
                    /\ CallProc(t, "xk_start", "pa_ret")
               ELSE /\ Return(t)
                    /\ UNCHANGED loc
       ELSE /\ res' = [res EXCEPT ![t] = Result("decision", dec)]
            /\ UNCHANGED <<audit, loc>>
            /\ IF dec.action_taken = "alert"
               THEN CallProc(t, "sa_step", "pa_alert_log")
               ELSE Return(t)
    /\ UNCHANGED <<session_vars, kill_history, clock, policy, calls, returned, webhook_posts, registry_vars>>

PA_AlertLog(t) ==
    /\ pc[t] = "pa_alert_log"
    /\ audit' = Append(audit, Entry("budget_alert", "", 0, 0, loc[t].dec.reason))
    /\ res' = [res EXCEPT ![t] = Result("decision", loc[t].dec)]
    /\ Return(t)
    /\ UNCHANGED <<session_vars, kill_history, clock, policy, loc, calls, returned, webhook_posts, registry_vars>>

PA_Ret(t) ==
    /\ pc[t] = "pa_ret"
    /\ res' = [res EXCEPT ![t] = Result("decision", loc[t].dec)]
    /\ Return(t)
    /\ UNCHANGED <<session_vars, kill_history, audit, clock, policy, loc, calls, returned, webhook_posts, registry_vars>>

\* ----------------------------------------------------- AgentTrace.post_action
PO_Get(t) ==
    /\ pc[t] = "po_get"
    /\ IF session_missing(loc[t].sid)
       THEN Raise(t, "ValueError")
       ELSE IF ~is_active
       THEN Raise(t, "SessionKilledError")
       ELSE CallProc(t, "ra_enter", "po_audit") /\ UNCHANGED res
    /\ UNCHANGED <<session_vars, kill_history, audit, clock, policy, loc, calls, returned, webhook_posts, registry_vars>>

\* (PO_Audit_Silent: the recorded action is not logged)
PO_Audit_Silent(t) ==
    /\ pc[t] = "po_audit"
    /\ res' = [res EXCEPT ![t] = NoResult]
    /\ Return(t)
    /\ UNCHANGED <<session_vars, kill_history, audit, clock, policy, loc, calls, returned, webhook_posts, registry_vars>>

PO_Audit(t) ==
    /\ pc[t] = "po_audit"
    /\ audit' = Append(audit, Entry("action_allowed", "", loc[t].cost, total_cost, NoReason))
    /\ res' = [res EXCEPT ![t] = NoResult]
    /\ Return(t)
    /\ UNCHANGED <<session_vars, kill_history, clock, policy, loc, calls, returned, webhook_posts, registry_vars>>

\* ------------------------------------------------ AgentTrace.record_violation
\* (AV_Get_NoCheck: the session is used without the is_active check)
AV_Get_NoCheck(t) ==
    /\ pc[t] = "av_get"
    /\ IF session_missing(loc[t].sid)
       THEN Raise(t, "ValueError")
       ELSE CallProc(t, "rv_enter", "av_audit") /\ UNCHANGED res
    /\ UNCHANGED <<session_vars, kill_history, audit, clock, policy, loc, calls, returned, webhook_posts, registry_vars>>

AV_Get(t) ==
    /\ pc[t] = "av_get"
    /\ IF session_missing(loc[t].sid)
       THEN Raise(t, "ValueError")
       ELSE IF ~is_active
       THEN Raise(t, "SessionKilledError")
       ELSE CallProc(t, "rv_enter", "av_audit") /\ UNCHANGED res
    /\ UNCHANGED <<session_vars, kill_history, audit, clock, policy, loc, calls, returned, webhook_posts, registry_vars>>

\* audit.log_violation, evaluate_violation and the kill it may ask for
AV_Audit(t) ==
    /\ pc[t] = "av_audit"
    /\ LET count == res[t].val
           dec == evaluate_violation(policy, loc[t].vtype, count)
       IN /\ audit' = Append(audit, Entry("violation", loc[t].vtype, count,
                                get_violation_threshold(policy, loc[t].vtype), NoReason))
          /\ res' = [res EXCEPT ![t] = Result("decision", dec)]
          /\ IF kill_required(dec)
             THEN /\ loc' = [loc EXCEPT ![t].dec = dec, ![t].reason = dec.reason,
                                        ![t].tmp = count]
                  /\ CallProc(t, "xk_start", "av_ret")
             ELSE /\ loc' = [loc EXCEPT ![t].dec = dec, ![t].tmp = count]
                  /\ Return(t)
    /\ UNCHANGED <<session_vars, kill_history, clock, policy, calls, returned, webhook_posts, registry_vars>>

AV_Ret(t) ==
    /\ pc[t] = "av_ret"
    /\ res' = [res EXCEPT ![t] = Result("decision", loc[t].dec)]
    /\ Return(t)
    /\ UNCHANGED <<session_vars, kill_history, audit, clock, policy, loc, calls, returned, webhook_posts, registry_vars>>

\* ------------------------------------------------ AgentTrace.complete_session
CS_Get(t) ==
    /\ pc[t] = "cs_get"
    /\ IF session_missing(loc[t].sid)
       THEN Raise(t, "ValueError")
       ELSE IF ~is_active
       THEN Raise(t, "SessionKilledError")
       ELSE CallProc(t, "co_step", "cs_audit") /\ UNCHANGED res
    /\ UNCHANGED <<session_vars, kill_history, audit, clock, policy, loc, calls, returned, webhook_posts, registry_vars>>

\* audit.log("session_completed", ...) and the summary of to_audit_dict
CS_Audit(t) ==
    /\ pc[t] = "cs_audit"
    /\ audit' = Append(audit, Entry("session_completed", "", total_cost, action_count,
                                    NoReason))
    /\ res' = [res EXCEPT ![t] = Result("summary",
                  [state |-> state, total_cost_usd |-> total_cost,
                   action_count |-> action_count, kill_reason |-> kill_reason])]
    /\ Return(t)
    /\ UNCHANGED <<session_vars, kill_history, clock, policy, loc, calls, returned, webhook_posts, registry_vars>>

\* ------------------------------------------------------------------ callers
\* A caller starts a call: the operation, its arguments, its first position.
StartCall(t, op, first, cost, vtype, reason) ==
    /\ pc[t] \in {"idle", "ret"} /\ calls < MaxCalls
    /\ loc' = [loc EXCEPT ![t] = [NoLocals EXCEPT !.op = op, !.cost = cost,
                                                  !.vtype = vtype, !.reason = reason]]
    /\ pc' = [pc EXCEPT ![t] = first]
    /\ stack' = [stack EXCEPT ![t] = <<"ret">>]
    /\ res' = [res EXCEPT ![t] = NoResult]
    /\ calls' = calls + 1
    /\ UNCHANGED <<session_vars, kill_history, audit, clock, policy, returned, webhook_posts, registry_vars>>

CallRecordAction(t) ==
    \E c \in Costs : StartCall(t, "Session.record_action", "ra_enter", c, "", NoReason)

CallSessionRecordViolation(t) ==
    \E vt \in ViolationTypes :
        StartCall(t, "Session.record_violation", "rv_enter", 0, vt, NoReason)

CallKill(t) ==
    \E r \in CallerReasons :
        StartCall(t, "Session.kill", "k_state", 0, "", Reason(r, 0, 0, ""))

CallSetAlert(t) == StartCall(t, "Session.set_alert", "sa_step", 0, "", NoReason)

CallComplete(t) == StartCall(t, "Session.complete", "co_step", 0, "", NoReason)

CallKillSession(t) ==
    \E r \in CallerReasons :
        StartCall(t, "SessionManager.kill_session", "ks_check", 0, "", Reason(r, 0, 0, ""))

CallExecute(t) ==
    \E r \in CallerReasons :
        StartCall(t, "KillSwitch.execute", "ex_start", 0, "", Reason(r, 0, 0, ""))

CallPreAction(t) ==
    \E c \in Costs \cup {3} :
        StartCall(t, "AgentTrace.pre_action", "pa_get", c, "", NoReason)

CallPostAction(t) ==
    \E c \in Costs : StartCall(t, "AgentTrace.post_action", "po_get", c, "", NoReason)

CallRecordViolation(t) ==
    \E vt \in ViolationTypes :
        StartCall(t, "AgentTrace.record_violation", "av_get", 0, vt, NoReason)

CallCompleteSession(t) ==
    StartCall(t, "AgentTrace.complete_session", "cs_get", 0, "", NoReason)

\* The steps inside Session, SessionManager and KillSwitch.
SessionProcs(t) ==
    \/ RA_Enter(t) \/ RA_Append(t) \/ RA_Count(t) \/ RA_Cost(t)
    \/ RV_Enter(t) \/ RV_Store(t)
    \/ K_State(t) \/ K_Reason(t)
    \/ SA_Step(t) \/ CO_Step(t)
    \/ KS_Check(t) \/ KS_True(t)
    \/ EX_Start(t) \/ EX_Event(t) \/ EX_Record(t)

\* The steps of Session and KillSwitch that the AgentTrace operations reach.
ReachedProcs(t) ==
    \/ RA_Enter(t) \/ RA_Append(t) \/ RA_Count(t) \/ RA_Cost(t)
    \/ RV_Enter(t) \/ RV_Store(t)
    \/ K_State(t) \/ K_Reason(t)
    \/ SA_Step(t) \/ CO_Step(t)
    \/ EX_Start(t) \/ EX_Event(t) \/ EX_Record(t)

\* The notification steps of KillSwitch.execute, taken when webhooks are configured.
NotifyProcs(t) == EX_Post(t) \/ EX_Response(t) \/ EX_Gather(t)

\* The steps inside AgentTrace.
TraceProcs(t) ==
    \/ XK_Start(t) \/ XK_Audit(t)
    \/ PA_Get(t) \/ PA_Eval(t) \/ PA_Act(t) \/ PA_AlertLog(t) \/ PA_Ret(t)
    \/ PO_Get(t) \/ PO_Audit(t)
    \/ AV_Get(t) \/ AV_Audit(t) \/ AV_Ret(t)
    \/ CS_Get(t) \/ CS_Audit(t)

SessionCalls(t) ==
    \/ CallRecordAction(t) \/ CallSessionRecordViolation(t) \/ CallKill(t)
    \/ CallSetAlert(t) \/ CallComplete(t) \/ CallKillSession(t) \/ CallExecute(t)

TraceCalls(t) ==
    \/ CallPreAction(t) \/ CallPostAction(t) \/ CallRecordViolation(t)
    \/ CallCompleteSession(t)

ThreadStep(t) == SessionCalls(t) \/ TraceCalls(t) \/ SessionProcs(t) \/ TraceProcs(t)

\* Concurrent callers of every operation.
Next == \E t \in Threads : ThreadStep(t)

Spec == Init /\ [][Next]_vars

\* Concurrent callers of the Session, SessionManager and KillSwitch operations.
NextSession == \E t \in Threads : SessionCalls(t) \/ SessionProcs(t)

SpecSession == Init /\ [][NextSession]_vars

\* One caller, one call at a time, of every operation.
NextSeq == ThreadStep("t1")

SpecSeq == Init /\ [][NextSeq]_vars

\* Concurrent callers of the AgentTrace operations.
NextTrace == \E t \in Threads : TraceCalls(t) \/ ReachedProcs(t) \/ TraceProcs(t)

SpecTrace == Init /\ [][NextTrace]_vars

\* ---------------------------------------------- PolicyEngine, called alone
\* A caller evaluates one decision for a snapshot of its choice (the functions
\* keep no state, so one call per behaviour covers them).
CallEvaluatePreAction(t) ==
    /\ pc[t] = "idle"
    /\ \E total \in 0..MaxTotal, count \in 0..MaxCount, duration \in 0..MaxClock,
          est \in EstimatedCosts :
         loc' = [loc EXCEPT ![t] =
                    [NoLocals EXCEPT !.op = "PolicyEngine.evaluate_pre_action",
                                     !.total = total, !.tmp = count,
                                     !.duration = duration, !.cost = est]]
    /\ pc' = [pc EXCEPT ![t] = "eval_pre"]
    /\ stack' = [stack EXCEPT ![t] = <<"ret">>]
    /\ res' = [res EXCEPT ![t] = NoResult]
    /\ calls' = calls + 1
    /\ UNCHANGED <<session_vars, kill_history, audit, clock, policy, returned, webhook_posts, registry_vars>>

EvalPreAction(t) ==
    /\ pc[t] = "eval_pre"
    /\ LET dec == evaluate_pre_action(policy, loc[t].total, loc[t].tmp,
                                      loc[t].duration, loc[t].cost)
       IN IF dec.action_taken = "ZeroDivisionError"
          THEN Raise(t, "ZeroDivisionError")
          ELSE /\ res' = [res EXCEPT ![t] = Result("decision", dec)]
               /\ Return(t)
    /\ UNCHANGED <<session_vars, kill_history, audit, clock, policy, loc, calls, returned, webhook_posts, registry_vars>>

CallEvaluateViolation(t) ==
    /\ pc[t] = "idle"
    /\ \E vt \in ViolationTypes, count \in 0..MaxCount :
         loc' = [loc EXCEPT ![t] =
                    [NoLocals EXCEPT !.op = "PolicyEngine.evaluate_violation",
                                     !.vtype = vt, !.tmp = count]]
    /\ pc' = [pc EXCEPT ![t] = "eval_viol"]
    /\ stack' = [stack EXCEPT ![t] = <<"ret">>]
    /\ res' = [res EXCEPT ![t] = NoResult]
    /\ calls' = calls + 1
    /\ UNCHANGED <<session_vars, kill_history, audit, clock, policy, returned, webhook_posts, registry_vars>>

EvalViolation(t) ==
    /\ pc[t] = "eval_viol"
    /\ res' = [res EXCEPT ![t] =
                  Result("decision",
                         evaluate_violation(policy, loc[t].vtype, loc[t].tmp))]
    /\ Return(t)
    /\ UNCHANGED <<session_vars, kill_history, audit, clock, policy, loc, calls, returned, webhook_posts, registry_vars>>

InitEval == \E p \in EvalPolicies : InitState(p)

NextEval ==
    \/ CallEvaluatePreAction("t1") \/ EvalPreAction("t1")
    \/ CallEvaluateViolation("t1") \/ EvalViolation("t1")

SpecEval == InitEval /\ [][NextEval]_vars

\* Concurrent callers of KillSwitch.execute and of the Session operations that
\* set the state, with two webhooks configured.
KillCalls(t) ==
    /\ calls < MaxKillCalls
    /\ \/ CallExecute(t) \/ CallKill(t) \/ CallComplete(t) \/ CallSetAlert(t)

KillProcs(t) ==
    \/ K_State(t) \/ K_Reason(t) \/ SA_Step(t) \/ CO_Step(t)
    \/ EX_Start(t) \/ EX_Event(t) \/ EX_Record(t)

NextKill == \E t \in Threads : KillCalls(t) \/ KillProcs(t) \/ NotifyProcs(t)

SpecKill == InitHooks /\ [][NextKill]_vars

\* Concurrent callers of AgentTrace.record_violation and callers of
\* PolicyEngine.evaluate_violation.
ViolationProcs(t) ==
    \/ AV_Get(t) \/ AV_Audit(t) \/ AV_Ret(t)
    \/ RV_Enter(t) \/ RV_Store(t)
    \/ XK_Start(t) \/ XK_Audit(t)
    \/ EX_Start(t) \/ EX_Event(t) \/ EX_Record(t)
    \/ K_State(t) \/ K_Reason(t)

NextViolation ==
    \E t \in Threads :
        \/ CallRecordViolation(t) \/ ViolationProcs(t)
        \/ CallEvaluateViolation(t) \/ EvalViolation(t)

SpecViolation == Init /\ [][NextViolation]_vars

\* Concurrent callers of the AgentTrace operations, MaxTraceCalls calls in all.
NextTraceShort ==
    \E t \in Threads :
        \/ calls < MaxTraceCalls /\ TraceCalls(t)
        \/ ReachedProcs(t) \/ TraceProcs(t)

SpecTraceShort == Init /\ [][NextTraceShort]_vars

\* ------------------------------------- SessionManager and AgentTrace lookups
\* A caller starts a call for a session id of its choice.
StartCallFor(t, sid, op, first, cost, vtype) ==
    /\ pc[t] \in {"idle", "ret"} /\ calls < MaxCalls
    /\ loc' = [loc EXCEPT ![t] = [NoLocals EXCEPT !.op = op, !.sid = sid,
                                                  !.cost = cost, !.vtype = vtype]]
    /\ pc' = [pc EXCEPT ![t] = first]
    /\ stack' = [stack EXCEPT ![t] = <<"ret">>]
    /\ res' = [res EXCEPT ![t] = NoResult]
    /\ calls' = calls + 1
    /\ UNCHANGED <<session_vars, kill_history, audit, clock, policy, returned, webhook_posts, registry_vars>>

\* AgentTrace.create_session.  A session_id of None gives the session a uuid4,
\* an id that is not registered: the same as supplying an unregistered id.
CallCreateSession(t) ==
    \E sid \in SessionIds :
        StartCallFor(t, sid, "AgentTrace.create_session", "cr_create", 0, "")

\* SessionManager.create_session: a new Session is constructed and stored
\* under its id, whatever the registry holds for that id.
CR_Create(t) ==
    /\ pc[t] = "cr_create"
    /\ registry_lock = NoThread /\ UNCHANGED registry_lock
    /\ created' = created + 1
    /\ sessions' = [sessions EXCEPT ![loc[t].sid] = created + 1]
    /\ Goto(t, "cr_audit")
    /\ UNCHANGED <<session_vars, kill_history, audit, clock, policy, loc, res, calls, returned, webhook_posts>>

\* audit.log("session_created", session_id=session.session_id, ...)
CR_Audit(t) ==
    /\ pc[t] = "cr_audit"
    /\ audit' = Append(audit, EntryOf(loc[t].sid, "session_created", "", 0, 0, NoReason))
    /\ res' = [res EXCEPT ![t] = Result("session", sessions[loc[t].sid])]
    /\ Return(t)
    /\ UNCHANGED <<session_vars, kill_history, clock, policy, loc, calls, returned, webhook_posts, registry_vars>>

\* AgentTrace.get_session / SessionManager.get_session
CallGetSession(t) ==
    \E sid \in SessionIds :
        StartCallFor(t, sid, "AgentTrace.get_session", "gs_get", 0, "")

GS_Get(t) ==
    /\ pc[t] = "gs_get"
    /\ res' = [res EXCEPT ![t] = Result("session", sessions[loc[t].sid])]
    /\ Return(t)
    /\ UNCHANGED <<session_vars, kill_history, audit, clock, policy, loc, calls, returned, webhook_posts, registry_vars>>

\* The session variables hold the fields of the Session constructed first;
\* the fields of the later ones are not tracked, so the operations are called
\* for an id that resolves to the first Session or to none.
Tracked(sid) == sessions[sid] \in {NoInstance, 1}

CallPreActionFor(t) ==
    \E sid \in SessionIds, c \in Costs \cup {3} :
        Tracked(sid) /\ StartCallFor(t, sid, "AgentTrace.pre_action", "pa_get", c, "")

CallPostActionFor(t) ==
    \E sid \in SessionIds, c \in Costs :
        Tracked(sid) /\ StartCallFor(t, sid, "AgentTrace.post_action", "po_get", c, "")

CallRecordViolationFor(t) ==
    \E sid \in SessionIds, vt \in ViolationTypes :
        Tracked(sid)
        /\ StartCallFor(t, sid, "AgentTrace.record_violation", "av_get", 0, vt)

CallCompleteSessionFor(t) ==
    \E sid \in SessionIds :
        Tracked(sid)
        /\ StartCallFor(t, sid, "AgentTrace.complete_session", "cs_get", 0, "")

\* ------------------------------------------ SessionManager.cleanup_completed
\* s.is_active of a registered Session: the first one has the session
\* variables, the later ones are as constructed (no operation is called on them)
instance_is_active(i) == IF i = 1 THEN is_active ELSE TRUE

CallCleanup(t) ==
    StartCallFor(t, "s1", "SessionManager.cleanup_completed", "cl_enter", 0, "")

\* `with self._lock:`
CL_Enter(t) ==
    /\ pc[t] = "cl_enter"
    /\ registry_lock = NoThread
    /\ registry_lock' = t
    /\ Goto(t, "cl_scan")
    /\ UNCHANGED <<session_vars, kill_history, audit, clock, policy, loc, res, calls, returned, webhook_posts, sessions, created>>

\* (CL_Scan_All: every registered session is selected)
CL_Scan_All(t) ==
    /\ pc[t] = "cl_scan"
    /\ loc' = [loc EXCEPT ![t].to_remove =
                  {sid \in SessionIds : sessions[sid] # NoInstance}]
    /\ Goto(t, "cl_delete")
    /\ UNCHANGED <<session_vars, kill_history, audit, clock, policy, res, calls, returned, webhook_posts, registry_vars>>

\* to_remove = [sid for sid, s in self._sessions.items() if not s.is_active]
CL_Scan(t) ==
    /\ pc[t] = "cl_scan"
    /\ loc' = [loc EXCEPT ![t].to_remove =
                  {sid \in SessionIds : /\ sessions[sid] # NoInstance
                                        /\ ~instance_is_active(sessions[sid])}]
    /\ Goto(t, "cl_delete")
    /\ UNCHANGED <<session_vars, kill_history, audit, clock, policy, res, calls, returned, webhook_posts, registry_vars>>

\* the deletions, the exit of the lock and `return len(to_remove)`
CL_Delete(t) ==
    /\ pc[t] = "cl_delete"
    /\ sessions' = [sid \in SessionIds |->
                      IF sid \in loc[t].to_remove THEN NoInstance ELSE sessions[sid]]
    /\ registry_lock' = NoThread
    /\ res' = [res EXCEPT ![t] = Result("count", Cardinality(loc[t].to_remove))]
    /\ Return(t)
    /\ UNCHANGED <<session_vars, kill_history, audit, clock, policy, loc, calls, returned, webhook_posts, created>>

CleanupProcs(t) == CL_Enter(t) \/ CL_Scan(t) \/ CL_Delete(t)

RegistryCalls(t) ==
    \/ CallCreateSession(t) \/ CallGetSession(t)
    \/ CallPreActionFor(t) \/ CallPostActionFor(t)
    \/ CallRecordViolationFor(t) \/ CallCompleteSessionFor(t)

RegistryProcs(t) == CR_Create(t) \/ CR_Audit(t) \/ GS_Get(t)

\* One caller of the AgentTrace operations, of any session id.
NextRegistry ==
    \/ RegistryCalls("t1") \/ RegistryProcs("t1")
    \/ ReachedProcs("t1") \/ TraceProcs("t1")

SpecRegistry == Init /\ [][NextRegistry]_vars

\* One caller of the AgentTrace operations and of cleanup_completed.
NextCleanup ==
    \/ RegistryCalls("t1") \/ CallCleanup("t1")
    \/ RegistryProcs("t1") \/ CleanupProcs("t1")
    \/ ReachedProcs("t1") \/ TraceProcs("t1")

SpecCleanup == Init /\ [][NextCleanup]_vars

\* ------------------------------------------------- a caller that asks first
\* One caller uses the session sequentially: it calls pre_action, and
\* post_action only after an allowed pre_action, with the approved estimate as
\* the actual cost.
StartDisciplined(t, op, first, cost) ==
    /\ pc[t] \in {"idle", "ret"} /\ calls < MaxBudgetCalls
    /\ loc' = [loc EXCEPT ![t] = [NoLocals EXCEPT !.op = op, !.cost = cost]]
    /\ pc' = [pc EXCEPT ![t] = first]
    /\ stack' = [stack EXCEPT ![t] = <<"ret">>]
    /\ res' = [res EXCEPT ![t] = NoResult]
    /\ calls' = calls + 1
    /\ UNCHANGED <<session_vars, kill_history, audit, clock, policy, returned, webhook_posts, registry_vars>>

CallPreActionFirst(t) ==
    \E c \in Costs \cup {3} :
        StartDisciplined(t, "AgentTrace.pre_action", "pa_get", c)

CallPostActionApproved(t) ==
    /\ loc[t].op = "AgentTrace.pre_action" /\ pc[t] = "ret"
    /\ res[t].kind = "decision" /\ res[t].val.action_allowed
    /\ StartDisciplined(t, "AgentTrace.post_action", "po_get", loc[t].cost)

\* every action on exceeding the session ceiling
InitDisciplined ==
    \E e \in PolicyActions : InitState([TestPolicy EXCEPT !.on_exceed = e])

NextDisciplined ==
    \/ CallPreActionFirst("t1") \/ CallPostActionApproved("t1")
    \/ PA_Get("t1") \/ PA_Eval("t1") \/ PA_Act("t1") \/ PA_AlertLog("t1") \/ PA_Ret("t1")
    \/ PO_Get("t1") \/ PO_Audit("t1")
    \/ RA_Enter("t1") \/ RA_Append("t1") \/ RA_Count("t1") \/ RA_Cost("t1")
    \/ SA_Step("t1")
    \/ XK_Start("t1") \/ XK_Audit("t1")
    \/ EX_Start("t1") \/ EX_Event("t1") \/ EX_Record("t1")
    \/ K_State("t1") \/ K_Reason("t1")

SpecDisciplined == InitDisciplined /\ [][NextDisciplined]_vars

\* ------------------------------------------------------ the lock discipline
\* Concurrent callers of the operations that take the session lock or the
\* registry lock.  Every thread that can take a step eventually takes one.
LockCalls(t) ==
    /\ calls < MaxLockCalls
    /\ \/ CallRecordAction(t) \/ CallSessionRecordViolation(t) \/ CallKill(t)
       \/ CallSetAlert(t) \/ CallComplete(t)
       \/ CallCreateSession(t) \/ CallCleanup(t)

LockProcs(t) ==
    \/ RA_Enter(t) \/ RA_Append(t) \/ RA_Count(t) \/ RA_Cost(t)
    \/ RV_Enter(t) \/ RV_Store(t)
    \/ K_State(t) \/ K_Reason(t)
    \/ SA_Step(t) \/ CO_Step(t)
    \/ CR_Create(t) \/ CR_Audit(t)
    \/ CleanupProcs(t)

NextLocks == \E t \in Threads : LockCalls(t) \/ LockProcs(t)

SpecLocks ==
    Init /\ [][NextLocks]_vars /\ \A t \in Threads : WF_vars(LockProcs(t))

\* ------------------------------------------------ PolicyEngine._parse_policy
\* Raw policy dictionaries: the per-session ceiling, the per-action ceiling and
\* the two action names as written in the file.
RawPolicies ==
    [ max_cost_per_session : {0, 3}, max_cost_per_action : {0, 2},
      on_exceed : {"kill", "block", "terminate"}, on_threshold : {"kill", "stop"} ]

\* PolicyAction(name) raises ValueError for a name that is not a member; the
\* numbers are stored as given.
parse_raises(raw) ==
    raw.on_exceed \notin PolicyActions \/ raw.on_threshold \notin PolicyActions

\* the Policy built from a dictionary that parses
parse_policy(raw) ==
         [TestPolicy EXCEPT !.max_cost_per_session = raw.max_cost_per_session,
                            !.max_cost_per_action = raw.max_cost_per_action,
                            !.on_exceed = raw.on_exceed,
                            !.on_threshold = raw.on_threshold]

\* PolicyEngine.from_dict: an engine exists for the dictionaries that parse.
InitParsed ==
    \E raw \in RawPolicies :
        ~parse_raises(raw) /\ InitState(parse_policy(raw))

\* The evaluation functions of an engine built by from_dict, called alone.
SpecParsed == InitParsed /\ [][NextEval]_vars

\* ------------------------------------------ actual costs of any accepted value
\* post_action takes actual_cost as a float and ActionRecord stores it without
\* a check: negative, zero and positive costs are all accepted.
AcceptedCosts == {-2, -1, 0, 1, 2}

CallPostActionAnyCost(t) ==
    \E c \in AcceptedCosts :
        StartCall(t, "AgentTrace.post_action", "po_get", c, "", NoReason)

\* One caller of post_action with any accepted cost and of record_violation.
NextCosts ==
    \/ CallPostActionAnyCost("t1") \/ CallRecordViolation("t1")
    \/ PO_Get("t1") \/ PO_Audit("t1")
    \/ RA_Enter("t1") \/ RA_Append("t1") \/ RA_Count("t1") \/ RA_Cost("t1")
    \/ ViolationProcs("t1")

SpecCosts == Init /\ [][NextCosts]_vars

\* -------------------------------------------------- CostTracker.check_budget
\* A ceiling of 0 stands for every falsy max_cost_per_action (None, 0, 0.0).
\* alert_threshold = alert_num / alert_den.
check_budget(session_total_cost, estimated_action_cost, max_cost_per_session, max_cost_per_action, alert_num, alert_den) ==
    LET cost_after == session_total_cost + estimated_action_cost
        remaining == max_cost_per_session - session_total_cost
        alert == session_total_cost * alert_den >= max_cost_per_session * alert_num
    IN IF max_cost_per_action # 0 /\ estimated_action_cost > max_cost_per_action
       THEN [allowed |-> FALSE, session_cost_after |-> session_total_cost,
             budget_remaining |-> remaining, alert |-> alert, reason |-> "per_action"]
       ELSE IF cost_after > max_cost_per_session
       THEN [allowed |-> FALSE, session_cost_after |-> session_total_cost,
             budget_remaining |-> remaining, alert |-> TRUE, reason |-> "budget"]
       ELSE [allowed |-> TRUE, session_cost_after |-> cost_after,
             budget_remaining |-> remaining - estimated_action_cost,
             alert |-> alert, reason |-> "None"]

\* Ceilings for the budget check: per-action ceilings 0, below and above the
\* per-session ceilings.
BudgetPolicies ==
    { [TestPolicy EXCEPT !.max_cost_per_session = s, !.max_cost_per_action = a] :
        s \in {3, 4}, a \in {0, 2, 5} }

InitBudget == \E p \in BudgetPolicies : InitState(p)

\* A caller checks the budget for a total and an estimate of its choice, with
\* the ceilings and the alert fraction of the policy.
CallCheckBudget(t) ==
    /\ pc[t] = "idle"
    /\ \E total \in 0..MaxTotal, est \in EstimatedCosts :
         loc' = [loc EXCEPT ![t] =
                    [NoLocals EXCEPT !.op = "CostTracker.check_budget",
                                     !.total = total, !.cost = est]]
    /\ pc' = [pc EXCEPT ![t] = "check_budget"]
    /\ stack' = [stack EXCEPT ![t] = <<"ret">>]
    /\ res' = [res EXCEPT ![t] = NoResult]
    /\ calls' = calls + 1
    /\ UNCHANGED <<session_vars, kill_history, audit, clock, policy, returned, webhook_posts, registry_vars>>

CheckBudget(t) ==
    /\ pc[t] = "check_budget"
    /\ res' = [res EXCEPT ![t] =
                  Result("budget",
                         check_budget(loc[t].total, loc[t].cost,
                                      policy.max_cost_per_session,
                                      policy.max_cost_per_action,
                                      policy.alert_num, policy.alert_den))]
    /\ Return(t)
    /\ UNCHANGED <<session_vars, kill_history, audit, clock, policy, loc, calls, returned, webhook_posts, registry_vars>>

NextBudget == CallCheckBudget("t1") \/ CheckBudget("t1")

SpecBudget == InitBudget /\ [][NextBudget]_vars

\* ================================================================== claims
Terminated == state \notin {"active", "alert"}

\* a terminal state that a finished operation has left behind
Settled ==
    \/ state \in {"completed", "expired"}
    \/ state = "killed" /\ kill_reason # NoReason

KilledEntries == {i \in DOMAIN audit : audit[i].event_type = "session_killed"}

\* C1: once kill(r1) has completed, no later step (in particular no later
\* kill(r2) with another reason) changes the state from Killed or the kill
\* reason from r1.
C1_FirstReasonWins ==
    [][(state = "killed" /\ kill_reason # NoReason)
          => (state' = "killed" /\ kill_reason' = kill_reason)]_vars

\* C2: once the session is Killed, Completed or Expired, no operation changes
\* its state or its recorded reason again (kill on Completed leaves Completed).
C2_OneTerminalState ==
    [][Settled => (state' = state /\ kill_reason' = kill_reason)]_vars

C4_RecordViolationRejected ==
    [][Terminated =>
          /\ UNCHANGED <<violation_counts, violations>>
          /\ \A t \in Threads :
                (pc[t] = "rv_enter" /\ pc'[t] # "rv_enter") => res'[t].kind = "error"
    ]_vars

\* C5: once the state has left Active/Alert, total cost, action count,
\* violation counts, action history and violation history never change.
C5_FrozenAfterTermination ==
    [][Terminated => UNCHANGED <<total_cost, action_count, violation_counts,
                                 actions, violations>>]_vars

\* C6: whenever no record_action call is between its append and the end of
\* its locked region, total_cost is the sum of the costs in the action history
\* and action_count is the length of the history, under every interleaving of
\* concurrent calls.
C6_CostAndCountMatchHistory ==
    (\A t \in Threads : pc[t] \notin {"ra_count", "ra_cost"})
        => (total_cost = SumCost(actions) /\ action_count = Len(actions))

\* C6 witness: both threads have returned from a record_action call and the
\* history holds at least two records.
C6_Witness ==
    /\ \A t \in Threads :
          loc[t].op = "Session.record_action" /\ pc[t] = "ret" /\ res[t] = NoResult
    /\ Len(actions) >= 2

\* C7: for every violation type, the Nth return of record_violation(type) is N
\* (so each of 1..N is returned exactly once), whatever is recorded for other
\* types and however concurrent calls interleave.
C7_NthViolationReturnsN ==
    \A vt \in ViolationTypes :
        /\ \A i \in DOMAIN returned[vt] : returned[vt][i] = i
        /\ Len(returned[vt]) <= violation_counts[vt]

\* C7 witness: two calls for one type and one for another have returned.
C7_Witness ==
    /\ Len(returned["pii_blocked"]) = 2
    /\ Len(returned["unknown_x"]) = 1

C9_ThresholdKill ==
    \A t \in Threads :
        (/\ pc[t] = "ret" /\ loc[t].op = "AgentTrace.record_violation"
         /\ has_threshold(policy, loc[t].vtype) /\ policy.on_threshold = "kill")
        => LET n == policy.thresholds[loc[t].vtype]
               c == loc[t].tmp
           IN IF res[t].kind = "error"
              THEN Terminated /\ res[t].val = "SessionKilledError"
              ELSE /\ res[t].kind = "decision"
                   /\ c = Len(returned[loc[t].vtype])
                   /\ c = violation_counts[loc[t].vtype]
                   /\ (c < n => res[t].val.action_allowed /\ ~Terminated)
                   /\ (c >= n => /\ ~res[t].val.action_allowed
                                 /\ res[t].val.action_taken = "kill"
                                 /\ state = "killed")

\* C9 witness: the Nth report has returned its Kill decision after an earlier
\* report of the type was logged with count 1.
C9_Witness ==
    \E t \in Threads :
        /\ pc[t] = "ret" /\ loc[t].op = "AgentTrace.record_violation"
        /\ loc[t].vtype = "pii_blocked" /\ loc[t].tmp = policy.thresholds["pii_blocked"]
        /\ res[t].kind = "decision" /\ ~res[t].val.action_allowed
        /\ \E i \in DOMAIN audit : audit[i].event_type = "violation" /\ audit[i].a = 1

\* C10: the kill history holds at most one KillEvent for the session and the
\* audit log at most one session_killed event.
C10_KilledOnce ==
    Len(kill_history) <= 1 /\ Cardinality(KilledEntries) <= 1

\* C11: over the lifetime of the session every configured webhook is posted
\* to at most once, and exactly once when an execute call has returned, also
\* when execute is called more than once.
C11_NotifiedOnce ==
    /\ \A url \in Webhooks : webhook_posts[url] <= 1
    /\ (\E t \in Threads : loc[t].op = "KillSwitch.execute" /\ pc[t] = "ret")
          => \A url \in Webhooks : webhook_posts[url] = 1

\* C12: in every state in which execute has reached its notifications, and
\* in every state in which a post to a webhook has started, the session is
\* Killed.
C12_KilledBeforeNotify ==
    /\ (\E url \in Webhooks : webhook_posts[url] > 0) => state = "killed"
    /\ \A t \in Threads : pc[t] \in {"ex_event", "ex_gather", "ex_record"}
                               => state = "killed"

\* C12 witness: a post has started and its response has not arrived.
C12_Witness ==
    \E t \in Threads :
        /\ pc[t] = "ex_gather"
        /\ \E i \in DOMAIN loc[t].outcomes : loc[t].outcomes[i] = "pending"

\* C13: whichever webhooks fail, execute returns a KillEvent (never an
\* error) whose notification list has one outcome per configured webhook, in
\* configuration order, marked sent exactly when the post got a 2xx response
\* and failed otherwise; every webhook was posted to and the session is Killed.
C13_FailuresDoNotStopTheKill ==
    \A t \in Threads :
        (loc[t].op = "KillSwitch.execute" /\ pc[t] = "ret")
        => /\ res[t].kind = "event"
           /\ state = "killed"
           /\ \E k \in DOMAIN kill_history : kill_history[k] = res[t].val
           /\ LET sent == res[t].val.notifications_sent IN
              /\ DOMAIN sent = DOMAIN policy.webhooks
              /\ \A i \in DOMAIN sent :
                    /\ sent[i].type = "webhook"
                    /\ sent[i].url = policy.webhooks[i]
                    /\ loc[t].outcomes[i] \in SendOutcomes
                    /\ sent[i].status = (IF loc[t].outcomes[i] = "sent"
                                         THEN "sent" ELSE "failed")
                    /\ webhook_posts[sent[i].url] >= 1

\* C13 witness: execute has returned after the first webhook raised an
\* exception and the second answered 2xx.
C13_Witness ==
    \E t \in Threads :
        /\ loc[t].op = "KillSwitch.execute" /\ pc[t] = "ret"
        /\ loc[t].outcomes = <<"exception", "sent">>
        /\ res[t].kind = "event"

C15_CompleteOnlyWhenActive ==
    [][\A t \in Threads :
        (pc[t] = "co_step" /\ pc'[t] # "co_step")
        => /\ kill_reason' = kill_reason
           /\ (state \in {"active", "alert"} => state' = "completed")
           /\ (state \notin {"active", "alert"} => state' = state)
           /\ (state = "killed" => state' = "killed")
    ]_vars

\* C15 witness: one caller has killed the session and then called complete(),
\* which has returned with the session still Killed for the caller's reason.
C15_Witness ==
    \E t \in Threads :
        /\ loc[t].op = "Session.complete" /\ pc[t] = "ret"
        /\ \A u \in Threads \ {t} : pc[u] = "idle"
        /\ calls = 2
        /\ state = "killed" /\ kill_reason = Reason("r1", 0, 0, "")

\* the evaluate_pre_action call of thread t has returned
PreReturned(t) ==
    loc[t].op = "PolicyEngine.evaluate_pre_action" /\ pc[t] = "ret"

\* the duration cap or the action cap is hit by the snapshot of thread t
CapHit(t) ==
    \/ loc[t].duration > policy.max_duration_seconds
    \/ loc[t].tmp >= policy.max_actions

\* C16: whenever duration > max_duration_seconds or action count >=
\* max_actions, evaluate_pre_action denies with action Kill, for every
\* estimated cost and session total.
C16_CapsFirst ==
    \A t \in Threads :
        (PreReturned(t) /\ CapHit(t))
        => (~res[t].val.action_allowed /\ res[t].val.action_taken = "kill")

\* C16 witness: the action cap alone is hit for a cost above the per-action
\* ceiling and a projected total above the session ceiling, under on_exceed =
\* block; the decision is Kill.
C16_Witness ==
    \E t \in Threads :
        /\ PreReturned(t)
        /\ loc[t].duration <= policy.max_duration_seconds
        /\ loc[t].tmp >= policy.max_actions
        /\ loc[t].cost > policy.max_cost_per_action
        /\ loc[t].total + loc[t].cost > policy.max_cost_per_session
        /\ policy.on_exceed = "block"
        /\ res[t].val.action_taken = "kill"

\* C17: when no cap is hit and the estimated cost exceeds the per-action
\* ceiling, the decision is denied with action Block, also when the projected
\* total exceeds the session ceiling.
C17_BlockBeforeBudget ==
    \A t \in Threads :
        (PreReturned(t) /\ ~CapHit(t) /\ loc[t].cost > policy.max_cost_per_action)
        => (~res[t].val.action_allowed /\ res[t].val.action_taken = "block")

\* C17 witness: a Block decision for a cost that also breaks the session
\* ceiling of a policy with on_exceed = kill.
C17_Witness ==
    \E t \in Threads :
        /\ PreReturned(t) /\ ~CapHit(t)
        /\ loc[t].cost > policy.max_cost_per_action
        /\ loc[t].total + loc[t].cost > policy.max_cost_per_session
        /\ policy.on_exceed = "kill"
        /\ res[t].val.action_taken = "block"

\* C18: when no cap is hit and the estimated cost is within the per-action
\* ceiling, the decision is denied exactly when total + estimated cost is
\* strictly above the session ceiling, and then its action is on_exceed; a
\* projected total equal to the ceiling is allowed.
C18_BudgetStrictlyAbove ==
    \A t \in Threads :
        (PreReturned(t) /\ ~CapHit(t) /\ loc[t].cost <= policy.max_cost_per_action)
        => /\ ~res[t].val.action_allowed
                <=> (loc[t].total + loc[t].cost > policy.max_cost_per_session)
           /\ ~res[t].val.action_allowed
                => res[t].val.action_taken = policy.on_exceed
           /\ (loc[t].total + loc[t].cost = policy.max_cost_per_session)
                => res[t].val.action_allowed

\* C18 witness: a projected total equal to the session ceiling has been
\* allowed.
C18_Witness ==
    \E t \in Threads :
        /\ PreReturned(t) /\ ~CapHit(t)
        /\ loc[t].cost <= policy.max_cost_per_action
        /\ loc[t].total > 0 /\ loc[t].cost > 0
        /\ loc[t].total + loc[t].cost = policy.max_cost_per_session
        /\ res[t].val.action_allowed

\* C19: when no deny rule matches, the decision is allowed, with action Alert
\* exactly when (total + estimated) / ceiling >= alert fraction and with
\* action Log otherwise.
C19_AlertOrLog ==
    \A t \in Threads :
        (/\ PreReturned(t) /\ ~CapHit(t)
         /\ loc[t].cost <= policy.max_cost_per_action
         /\ loc[t].total + loc[t].cost <= policy.max_cost_per_session)
        => /\ res[t].val.action_allowed
           /\ res[t].val.action_taken \in {"alert", "log"}
           /\ res[t].val.action_taken = "alert"
                <=> ((loc[t].total + loc[t].cost) * policy.alert_den
                        >= policy.alert_num * policy.max_cost_per_session)

\* C19 witness: an Alert decision for a utilization exactly at the alert
\* fraction 2/3.
C19_Witness ==
    \E t \in Threads :
        /\ PreReturned(t) /\ ~CapHit(t)
        /\ policy.alert_num = 2 /\ policy.max_cost_per_session = 3
        /\ loc[t].total + loc[t].cost = 2
        /\ res[t].val.action_allowed /\ res[t].val.action_taken = "alert"

\* C20: for a type with max_count N, evaluate_violation(type, c) denies with
\* the on_threshold action exactly when c >= N and allows with action Log when
\* c < N.
C20_ThresholdInclusive ==
    \A t \in Threads :
        (/\ loc[t].op = "PolicyEngine.evaluate_violation" /\ pc[t] = "ret"
         /\ loc[t].vtype \in DOMAIN policy.thresholds)
        => LET n == policy.thresholds[loc[t].vtype] IN
           /\ ~res[t].val.action_allowed <=> loc[t].tmp >= n
           /\ ~res[t].val.action_allowed
                => res[t].val.action_taken = policy.on_threshold
           /\ loc[t].tmp < n
                => (res[t].val.action_allowed /\ res[t].val.action_taken = "log")

\* C20 witness: count N has been denied with the on_threshold action kill.
C20_Witness ==
    \E t \in Threads :
        /\ loc[t].op = "PolicyEngine.evaluate_violation" /\ pc[t] = "ret"
        /\ loc[t].vtype = "pii_blocked"
        /\ loc[t].tmp = policy.thresholds["pii_blocked"]
        /\ ~res[t].val.action_allowed /\ res[t].val.action_taken = "kill"

\* the positions of a thread inside AgentTrace._execute_kill and after it
KillPositions ==
    {"xk_start", "xk_audit", "ex_start", "ex_event", "ex_gather", "ex_record",
     "k_state", "k_reason", "av_ret"}

\* C21: for a violation type without a configured threshold,
\* evaluate_violation returns allowed = true with action Log for every
\* cumulative count, and AgentTrace.record_violation of such a type never
\* reaches the kill, however many times the type is reported: its decision is
\* allowed/Log, and no kill reason or kill event names the type.
C21_UnconfiguredNeverKills ==
    /\ \A t \in Threads :
        /\ ( /\ loc[t].op = "PolicyEngine.evaluate_violation"
             /\ ~has_threshold(policy, loc[t].vtype)
             /\ pc[t] = "ret" )
           => /\ res[t].kind = "decision"
              /\ res[t].val.action_allowed
              /\ res[t].val.action_taken = "log"
        /\ ( /\ loc[t].op = "AgentTrace.record_violation"
             /\ ~has_threshold(policy, loc[t].vtype) )
           => /\ pc[t] \notin KillPositions
              /\ (pc[t] = "ret" /\ res[t].kind = "decision")
                 => res[t].val.action_allowed /\ res[t].val.action_taken = "log"
    /\ kill_reason # NoReason => has_threshold(policy, kill_reason[4])
    /\ \A i \in DOMAIN kill_history : has_threshold(policy, kill_history[i].reason[4])

\* the unconfigured type has been reported MaxCalls times and the session lives
C21_Witness ==
    /\ violation_counts["unknown_x"] = MaxCalls
    /\ Len(returned["unknown_x"]) = MaxCalls
    /\ is_active
    /\ \E t \in Threads :
        /\ loc[t].op = "AgentTrace.record_violation" /\ loc[t].vtype = "unknown_x"
        /\ pc[t] = "ret" /\ res[t].kind = "decision" /\ res[t].val.action_allowed

\* C22: a pre_action whose decision is Block rejects only that action.  The
\* steps of pre_action before the decision change no field of the session and
\* not the kill history; the step that acts on a Block decision returns that
\* decision to the caller and leaves the session's state (Active or Alert),
\* total cost, action count, violation counts, histories and the kill history
\* as they were, so that the session still takes a later pre_action.
C22_BlockRejectsOnlyTheAction ==
    [][ \A t \in Threads :
          /\ (loc[t].op = "AgentTrace.pre_action" /\ pc[t] \in {"pa_get", "pa_eval"})
             => UNCHANGED <<session_vars, kill_history>>
          /\ ( /\ loc[t].op = "AgentTrace.pre_action" /\ pc[t] = "pa_act"
               /\ pc'[t] # "pa_act"
               /\ ~loc[t].dec.action_allowed /\ loc[t].dec.action_taken = "block" )
             => /\ pc'[t] = "ret"
                /\ res'[t] = Result("decision", loc[t].dec)
                /\ is_active'
                /\ UNCHANGED <<session_vars, kill_history>> ]_vars

\* a pre_action was blocked for its per-action cost, and a later pre_action of
\* the same session has returned an allowed decision
C22_Witness ==
    /\ \E i \in DOMAIN audit :
          audit[i].event_type = "action_blocked" /\ audit[i].r[1] = "per_action"
    /\ is_active
    /\ Cardinality(KilledEntries) = 0
    /\ loc["t1"].op = "AgentTrace.pre_action" /\ pc["t1"] = "ret"
    /\ res["t1"].kind = "decision" /\ res["t1"].val.action_allowed

\* the first step of each AgentTrace operation on a session: _get_active_session
GetPositions == {"pa_get", "po_get", "av_get", "cs_get"}

\* C23: once the session is killed, every pre_action, post_action,
\* record_violation and complete_session call for it raises SessionKilledError
\* at its first step and ends there: the session's state, reason, counters and
\* histories, the kill history and the audit log are unchanged, under any
\* interleaving with the other callers.
C23_KilledSessionRejectsCalls ==
    [][ \A t \in Threads :
          ( /\ pc[t] \in GetPositions /\ pc'[t] # pc[t]
            /\ ~session_missing(loc[t].sid)
            /\ state = "killed" )
          => /\ pc'[t] = "ret"
             /\ res'[t] = Result("error", "SessionKilledError")
             /\ UNCHANGED <<session_vars, kill_history, audit>> ]_vars

\* after the one kill, a post_action or record_violation call has been rejected
C23_Witness ==
    /\ state = "killed" /\ kill_reason # NoReason
    /\ Len(kill_history) = 1
    /\ \E t \in Threads :
        /\ loc[t].op \in {"AgentTrace.post_action", "AgentTrace.record_violation"}
        /\ pc[t] = "ret"
        /\ res[t] = Result("error", "SessionKilledError")

\* C24: a pre_action, post_action, record_violation or complete_session given
\* a session id that the registry does not contain raises the
\* session-not-found error (ValueError) at its first step and ends there: no
\* session field, no registry entry, no audit entry and no kill-history entry
\* is created or modified.
C24_UnknownSessionIsAnError ==
    [][ \A t \in Threads :
          ( /\ pc[t] \in GetPositions /\ pc'[t] # pc[t]
            /\ sessions[loc[t].sid] = NoInstance )
          => /\ pc'[t] = "ret"
             /\ res'[t] = Result("error", "ValueError")
             /\ UNCHANGED <<session_vars, registry_vars, kill_history, audit>> ]_vars

\* an operation for the unregistered id "s2" was refused after the session
\* registered as "s1" had recorded an action
C24_Witness ==
    /\ sessions["s2"] = NoInstance
    /\ Len(actions) >= 1
    /\ loc["t1"].sid = "s2"
    /\ loc["t1"].op \in {"AgentTrace.pre_action", "AgentTrace.complete_session"}
    /\ pc["t1"] = "ret"
    /\ res["t1"] = Result("error", "ValueError")

\* C25: no session id ever resolves to two different Session instances: once
\* the registry holds an instance for an id, no create_session (also one given
\* that id) and no get_session makes the id resolve to another instance.
C25_OneInstancePerId ==
    [][ \A sid \in SessionIds :
          sessions[sid] # NoInstance => sessions'[sid] = sessions[sid] ]_vars

\* C26: the (total cost, action count) pair that pre_action passes to the
\* evaluator is a point-in-time read: when the decision has been evaluated,
\* the two values are the cost and the count of one and the same prefix of the
\* session's appended actions, under any interleaving with record_action.
C26_CostAndCountReadTogether ==
    \A t \in Threads :
        (loc[t].op = "AgentTrace.pre_action" /\ pc[t] = "pa_act")
        => \E k \in 0..Len(actions) :
              /\ loc[t].tmp = k
              /\ loc[t].total = SumCost(SubSeq(actions, 1, k))

CreatedEntries == {i \in DOMAIN audit : audit[i].event_type = "session_created"}

CompletedEntries == {i \in DOMAIN audit : audit[i].event_type = "session_completed"}

\* no thread is inside an operation
Quiescent == \A t \in Threads : pc[t] \in {"idle", "ret"}

\* C27: the audit log holds one event per state change of the session: exactly
\* one session_created event, at most one session_killed event and only for a
\* killed session, at most one session_completed event and only for a session
\* in state Completed (never for a Killed one), and, once the operations have
\* returned, a session_killed event if and only if the session was killed and
\* a session_completed event if and only if it was completed.
C27_OneEventPerStateChange ==
    /\ Cardinality(CreatedEntries) = 1
    /\ Cardinality(KilledEntries) <= 1
    /\ Cardinality(CompletedEntries) <= 1
    /\ KilledEntries # {} => state = "killed"
    /\ CompletedEntries # {} => state = "completed"
    /\ Quiescent => /\ state = "killed" <=> KilledEntries # {}
                    /\ state = "completed" <=> CompletedEntries # {}

\* C28: the audit log is ordered as the state changes took effect:
\* session_created is the first event, and no action_allowed or violation
\* event comes after the session_killed or session_completed event of the
\* session, under any interleaving of concurrent callers.
C28_AuditOrderedPerSession ==
    /\ audit[1].event_type = "session_created"
    /\ \A i, j \in DOMAIN audit :
          ( /\ i < j
            /\ audit[i].event_type \in {"session_killed", "session_completed"} )
          => audit[j].event_type \notin {"action_allowed", "violation"}

\* the audit entries of an event type, in log order
RECURSIVE EntriesOfType(_, _)
EntriesOfType(log, event_type) ==
    IF log = <<>> THEN <<>>
    ELSE IF Head(log).event_type = event_type
         THEN <<Head(log)>> \o EntriesOfType(Tail(log), event_type)
         ELSE EntriesOfType(Tail(log), event_type)

RECURSIVE ViolationCountsLogged(_, _)
ViolationCountsLogged(log, vt) ==
    IF log = <<>> THEN <<>>
    ELSE IF Head(log).event_type = "violation" /\ Head(log).vt = vt
         THEN <<Head(log).a>> \o ViolationCountsLogged(Tail(log), vt)
         ELSE ViolationCountsLogged(Tail(log), vt)

\* AuditLogger.entries_for_session
RECURSIVE entries_for_session(_, _)
entries_for_session(log, session_id) ==
    IF log = <<>> THEN <<>>
    ELSE IF Head(log).session_id = session_id
         THEN <<Head(log)>> \o entries_for_session(Tail(log), session_id)
         ELSE entries_for_session(Tail(log), session_id)

\* C29: when the caller's operations have returned, the audit log holds one
\* action_allowed event for every action that post_action recorded, carrying
\* its cost; one violation event for every record_violation, carrying the
\* cumulative count that the session returned for it; one session_created
\* event for every created session; and each of them carries the session's id,
\* so that entries_for_session of the ids returns them all.
C29_OneTaggedEventPerOperation ==
    Quiescent =>
        /\ Len(EntriesOfType(audit, "action_allowed")) = Len(actions)
        /\ \A k \in DOMAIN actions :
              /\ EntriesOfType(audit, "action_allowed")[k].a = actions[k].cost
              /\ EntriesOfType(audit, "action_allowed")[k].session_id = "s1"
        /\ Len(EntriesOfType(audit, "violation")) = Len(violations)
        /\ \A vt \in ViolationTypes : ViolationCountsLogged(audit, vt) = returned[vt]
        /\ \A k \in DOMAIN EntriesOfType(audit, "violation") :
              EntriesOfType(audit, "violation")[k].session_id = "s1"
        /\ Len(EntriesOfType(audit, "session_created")) = created
        /\ \A sid \in SessionIds :
              sessions[sid] # NoInstance
              => EntriesOfType(entries_for_session(audit, sid), "session_created") # <<>>
        /\ Len(entries_for_session(audit, "s1")) + Len(entries_for_session(audit, "s2"))
              = Len(audit)

\* a post_action and a record_violation have been logged and a second session
\* has been created
C29_Witness ==
    /\ Quiescent
    /\ Len(actions) = 1 /\ Len(EntriesOfType(audit, "action_allowed")) = 1
    /\ Len(violations) = 1 /\ Len(EntriesOfType(audit, "violation")) = 1
    /\ created = 2 /\ sessions["s2"] = 2
    /\ Len(entries_for_session(audit, "s2")) = 1

\* C30: whenever complete_session returns its summary, the session is at that
\* moment in state Completed and the summary reports state 'completed' with
\* the total cost and the action count of the session, under any interleaving
\* with concurrent kill triggers.
C30_CompleteSessionCompletes ==
    [][ \A t \in Threads :
          (pc[t] = "cs_audit" /\ pc'[t] = "ret")
          => /\ res'[t].kind = "summary"
             /\ res'[t].val.state = "completed"
             /\ state' = "completed"
             /\ res'[t].val.total_cost_usd = total_cost'
             /\ res'[t].val.action_count = action_count' ]_vars

\* C31: for every policy that from_dict accepts, including one whose
\* per-session ceiling is 0, evaluate_pre_action and evaluate_violation return
\* a PolicyDecision for every input and never raise.
C31_EvaluationNeverRaises ==
    \A t \in Threads :
        ( /\ loc[t].op \in {"PolicyEngine.evaluate_pre_action",
                            "PolicyEngine.evaluate_violation"}
          /\ pc[t] = "ret" )
        => /\ res[t].kind = "decision"
           /\ res[t].val.action_taken \in PolicyActions

\* C32: while the session is Active or Alert, no step lowers its total cost,
\* its action count or any per-type violation count, and the total cost is
\* never negative, for every actual cost that post_action accepts.
C32_CountersNeverDecrease ==
    [][ /\ total_cost' >= 0
        /\ is_active =>
             /\ total_cost' >= total_cost
             /\ action_count' >= action_count
             /\ \A vt \in ViolationTypes :
                   violation_counts'[vt] >= violation_counts[vt] ]_vars

\* a check_budget call of thread t has returned
BudgetReturned(t) ==
    loc[t].op = "CostTracker.check_budget" /\ pc[t] = "ret" /\ res[t].kind = "budget"

\* C33: check_budget reports alert = true for an allowed action whenever the
\* projected utilization (total + estimate) / ceiling exceeds the alert
\* threshold, and allowed = false with a reason whenever the projected cost
\* exceeds the per-session ceiling.
C33_BudgetAlertOnProjectedUtilization ==
    \A t \in Threads :
        BudgetReturned(t) =>
            LET cost_after == loc[t].total + loc[t].cost IN
            /\ ( /\ res[t].val.allowed
                 /\ cost_after * policy.alert_den
                        > policy.max_cost_per_session * policy.alert_num )
               => res[t].val.alert
            /\ cost_after > policy.max_cost_per_session
               => ~res[t].val.allowed /\ res[t].val.reason # "None"

\* C40: check_budget and evaluate_pre_action agree on allow/deny: for every
\* session total, estimated cost, per-session ceiling and per-action ceiling
\* (a per-action ceiling of 0 included), with the duration and action caps not
\* hit, check_budget.allowed equals evaluate_pre_action.action_allowed.
C40_BudgetCheckAgreesWithEvaluator ==
    \A t \in Threads :
        BudgetReturned(t) =>
            res[t].val.allowed
              = evaluate_pre_action(policy, loc[t].total, 0, 0, loc[t].cost).action_allowed

\* C34: a set_alert step changes the state from Active to Alert and changes
\* nothing from Alert, Killed, Completed or Expired; and no step of any
\* operation, the pre_action calls with Alert decisions included, moves a
\* terminal session back to a non-terminal state or an Alert session back to
\* Active.
C34_SetAlertOnlyFromActive ==
    [][ /\ \A t \in Threads :
             (pc[t] = "sa_step" /\ pc'[t] # "sa_step")
             => /\ state' = (IF state = "active" THEN "alert" ELSE state)
                /\ UNCHANGED <<kill_reason, total_cost, action_count, violation_counts,
                               actions, violations>>
        /\ Terminated => Terminated'
        /\ state = "alert" => state' # "active" ]_vars

\* two pre_action calls got Alert decisions: the second set_alert found the
\* session in Alert already and left it there
C34_Witness ==
    /\ state = "alert"
    /\ \E i \in DOMAIN audit : audit[i].event_type = "budget_alert"
    /\ \E t \in Threads :
          loc[t].op = "AgentTrace.pre_action" /\ pc[t] = "pa_alert_log"

\* the registered ids whose session is not active
InactiveIds ==
    {sid \in SessionIds : sessions[sid] # NoInstance /\ ~instance_is_active(sessions[sid])}

\* C35: cleanup_completed removes exactly the sessions that are not active at
\* the call and returns their number; every Active or Alert session stays
\* registered under its id with its state and counters unchanged; a removed id
\* resolves to nothing afterwards, and an AgentTrace operation on an id that
\* resolves to nothing fails as session-not-found.
C35_CleanupRemovesTheInactive ==
    [][ \A t \in Threads :
          /\ (pc[t] = "cl_enter" /\ pc'[t] = "cl_scan")
             => UNCHANGED <<session_vars, sessions>>
          /\ (pc[t] = "cl_scan" /\ pc'[t] = "cl_delete")
             => UNCHANGED <<session_vars, sessions>>
          /\ (pc[t] = "cl_delete" /\ pc'[t] = "ret")
             => /\ \A sid \in SessionIds :
                     sessions'[sid] = IF sid \in InactiveIds THEN NoInstance
                                      ELSE sessions[sid]
                /\ res'[t] = Result("count", Cardinality(InactiveIds))
                /\ UNCHANGED session_vars
          /\ ( /\ pc[t] \in GetPositions /\ pc'[t] # pc[t]
               /\ sessions[loc[t].sid] = NoInstance )
             => /\ pc'[t] = "ret"
                /\ res'[t] = Result("error", "ValueError") ]_vars

\* the completed or killed session was removed (the call returned 1) and an
\* operation on its id has then failed as session-not-found
C35_Witness ==
    /\ Terminated
    /\ sessions["s1"] = NoInstance
    /\ loc["t1"].sid = "s1" /\ loc["t1"].op \in {"AgentTrace.post_action", "AgentTrace.pre_action"}
    /\ pc["t1"] = "ret"
    /\ res["t1"] = Result("error", "ValueError")

\* C36: when one caller uses the session sequentially and calls post_action
\* only after an allowed pre_action, with the approved estimate as the actual
\* cost, the total cost never exceeds max_cost_per_session and the action
\* count never exceeds max_actions.
C36_BudgetEnforced ==
    /\ total_cost <= policy.max_cost_per_session
    /\ action_count <= policy.max_actions
    /\ Len(actions) <= policy.max_actions

\* the budget and the action cap are both used up, and the session lives
C36_Witness ==
    /\ total_cost = policy.max_cost_per_session
    /\ action_count = policy.max_actions
    /\ is_active
    /\ pc["t1"] = "ret" /\ loc["t1"].op = "AgentTrace.post_action"

\* C37: for a violation type with threshold N and on_threshold = kill, the
\* session's count for the type never exceeds N, under any interleaving of
\* concurrent AgentTrace.record_violation calls.
C37_CountStopsAtThreshold ==
    \A vt \in ViolationTypes :
        (has_threshold(policy, vt) /\ policy.on_threshold = "kill")
        => violation_counts[vt] <= get_violation_threshold(policy, vt)

SessionLockEntries == {"ra_enter", "rv_enter", "k_state", "sa_step", "co_step"}

\* C39: the locking discipline is deadlock-free: no thread ever holds the
\* session lock and the registry lock together, and with concurrent callers
\* of record_action, record_violation, kill, set_alert, complete,
\* create_session and cleanup_completed every call that has started eventually
\* returns, under fair scheduling of the threads.
C39_EveryCallReturns ==
    /\ [](\A t \in Threads : ~(lock = t /\ registry_lock = t))
    /\ \A t \in Threads : (pc[t] \notin {"idle", "ret"}) ~> (pc[t] = "ret")

\* a thread waits for the session lock that the other thread holds
C39_Witness ==
    \E t, u \in Threads :
        /\ t # u
        /\ lock = t /\ pc[t] \in {"ra_append", "ra_count", "ra_cost", "rv_store", "k_reason"}
        /\ pc[u] \in SessionLockEntries
====
